---- MODULE Spec2Model ----
(***************************************************************************)
(* Lifecycle of Nokogiri::XML::Namespace wrappers                          *)
(* (ext/nokogiri/xml_namespace.c).                                         *)
(*                                                                         *)
(* The state is the native heap (xmlNs records with their next link, their *)
(* _private slot and their href/prefix buffers, and the documents that own *)
(* some of them) together with the Ruby heap (the Namespace objects made   *)
(* by Data_Wrap_Struct, their @document ivar, each Document object's       *)
(* @node_cache, and the references callers hold).                          *)
(***************************************************************************)
EXTENDS Integers, Sequences, FiniteSets, TLC

(***************************************************************************)
(* Bounds of the model.                                                    *)
(***************************************************************************)
\* Data_Wrap_Struct calls the model follows (the code never needs more than
\* one per node; the cap only stops a broken identity cache from running on).
MaxWrappers == 5
\* records whose next link differs, at one time, from the link they were
\* made with
MaxRelinked == 1

(***************************************************************************)
(* Values.                                                                 *)
(***************************************************************************)
NULL == "NULL"
Qnil == "nil"

XML_DOCUMENT_NODE == "XML_DOCUMENT_NODE"
XML_HTML_DOCUMENT_NODE == "XML_HTML_DOCUMENT_NODE"
XML_DOCUMENT_FRAG_NODE == "XML_DOCUMENT_FRAG_NODE"
XML_NAMESPACE_DECL == "XML_NAMESPACE_DECL"
XML_ELEMENT_NODE == "XML_ELEMENT_NODE"

\* xmlDoc records, and the xmlNode of a fragment that callers hand in as an
\* xmlDocPtr
Docs == {"d1", "d2"}
Frags == {"f1"}
Handles == Docs \cup Frags

\* xmlNs records: n1 -> n2 is the nsDef chain of an element of d1, n3 the
\* nsDef of an element of d2; c1, c2, c3 are copies made for an XPath node
\* set of a query on d1.
TreeNodes == {"n1", "n2", "n3"}
Copies == {"c1", "c2", "c3"}
AllNodes == TreeNodes \cup Copies
\* the element each document's namespaces are declared on
Elems == {"e1", "e2"}
Ptrs == {NULL} \cup AllNodes \cup Elems

\* the document whose tree holds the node, or whose query made the copy
home(n) == IF n \in {"n3"} THEN "d2" ELSE "d1"
elemOf(d) == IF d = "d1" THEN "e1" ELSE "e2"

\* doc->type
doctype(h) ==
  CASE h = "d1" -> XML_DOCUMENT_NODE
    [] h = "d2" -> XML_HTML_DOCUMENT_NODE
    [] OTHER -> XML_DOCUMENT_FRAG_NODE
\* doc->doc
docdoc(h) == IF h \in Frags THEN "d1" ELSE h

\* Ruby values handed back by the accessors
RNil == <<"nil">>
RStr(t) == <<"str", t>>

\* the texts of the declarations: xmlns="u:a" and xmlns:b="u:b"
TextA == <<117, 58, 97>>
TextB == <<117, 58, 98>>
TextP == <<98>>

\* the namespace URI and the prefix each record was made with (RNil: none)
hrefText(n) ==
  CASE n \in {"n1", "c2"} -> RStr(TextA)
    [] n \in {"n2", "n3", "c1"} -> RStr(TextB)
    [] OTHER -> RNil
prefixText(n) ==
  CASE n \in {"n2", "c1", "c3"} -> RStr(TextP)
    [] OTHER -> RNil

\* C strings: the bytes of the text and the terminating NUL byte (0)
CStr(t) == t \o <<0>>
\* a null xmlChar pointer: no bytes at all (a buffer always holds its NUL)
NullBuf == <<>>

\* ns->href and ns->prefix, set when the record is made and never written by
\* this file
hrefOf(n) == IF hrefText(n) = RNil THEN NullBuf ELSE CStr(hrefText(n)[2])
prefixOf(n) == IF prefixText(n) = RNil THEN NullBuf ELSE CStr(prefixText(n)[2])

dealloc_fn == "dealloc_namespace"
no_fn == "0"

VARIABLES
  status,      \* "running", or "aborted" once an assert has failed
  alloc,       \* the xmlNs records that exist
  next,        \* ns->next
  private,     \* ns->_private: 0 (NULL) or the VALUE of the wrapper
  freed,       \* per record, the xmlFree calls made on its parts, in order
  docObject,   \* per document: "none", "live" or "collected" Ruby object
  tornDown,    \* the documents whose native tree has been freed
  node_cache,  \* @node_cache of each Document object
  wrappers,    \* the Namespace objects, by VALUE: [node, dfree, document]
  collected,   \* the Namespace objects the collector has swept
  held,        \* the Namespace objects a caller still refers to
  docHeld,     \* the Document objects a caller still refers to
  ret          \* the value the last call of this file's API returned

vars == <<status, alloc, next, private, freed, docObject, tornDown,
          node_cache, wrappers, collected, held, docHeld, ret>>

Range(s) == {s[i] : i \in DOMAIN s}
Count(s, x) == Cardinality({i \in DOMAIN s : s[i] = x})

\* the last call: for a wrap, self is the node, doc the document the handle
\* passed stands for, link the next link the call saw and hit whether
\* _private was already set
NoRet == [op |-> "none"]

TypeOK ==
  /\ status \in {"running", "aborted"}
  /\ alloc \subseteq AllNodes
  /\ next \in [AllNodes -> Ptrs]
  /\ private \in [AllNodes -> 0..MaxWrappers]
  /\ \A n \in AllNodes : freed[n] \in Seq({"href", "prefix", "node"})
  /\ docObject \in [Docs -> {"none", "live", "collected"}]
  /\ tornDown \subseteq Docs
  /\ \A d \in Docs : node_cache[d] \in Seq(1..MaxWrappers)
  /\ Len(wrappers) <= MaxWrappers
  /\ \A w \in DOMAIN wrappers :
       /\ wrappers[w].node \in AllNodes
       /\ wrappers[w].dfree \in {dealloc_fn, no_fn}
       /\ wrappers[w].document \in Docs \cup {Qnil}
  /\ collected \subseteq DOMAIN wrappers
  /\ held \subseteq DOMAIN wrappers
  /\ docHeld \subseteq Docs

\* the next link each record is created with: the nsDef chain n1 -> n2 in d1,
\* the single declaration n3 in d2, and for a copy the element the query
\* found the namespace on (what xmlXPathNodeSetDupNs stores in next)
InitNext(n) ==
  CASE n = "n1" -> "n2"
    [] n \in Copies -> elemOf(home(n))
    [] OTHER -> NULL

InitCommon ==
  /\ status = "running"
  /\ next = [n \in AllNodes |-> InitNext(n)]
  /\ private = [n \in AllNodes |-> 0]
  /\ freed = [n \in AllNodes |-> <<>>]
  /\ docObject = [d \in Docs |-> "none"]
  /\ tornDown = {}
  /\ node_cache = [d \in Docs |-> <<>>]
  /\ wrappers = <<>>
  /\ collected = {}
  /\ held = {}
  /\ docHeld = {}
  /\ ret = NoRet

\* one document with two declarations and one copy from a query on it
Init ==
  /\ InitCommon
  /\ alloc = {"n1", "n2", "c1"}

\* two documents with one declaration each
InitDocs ==
  /\ InitCommon
  /\ alloc = {"n2", "n3"}

\* a query on the document (whose Document object the caller holds) has made
\* three copies of its declaration
InitQuery ==
  /\ status = "running"
  /\ alloc = {"n2", "c1", "c2", "c3"}
  /\ next = [n \in AllNodes |-> InitNext(n)]
  /\ private = [n \in AllNodes |-> 0]
  /\ freed = [n \in AllNodes |-> <<>>]
  /\ docObject = [d \in Docs |-> IF d = "d1" THEN "live" ELSE "none"]
  /\ tornDown = {}
  /\ node_cache = [d \in Docs |-> <<>>]
  /\ wrappers = <<>>
  /\ collected = {}
  /\ held = {}
  /\ docHeld = {"d1"}
  /\ ret = NoRet

\* a document is followed when it holds a namespace record
Exists(d) == {n \in alloc : home(n) = d} # {}

(***************************************************************************)
(* Memory.                                                                 *)
(***************************************************************************)
IsFreed(n) == "node" \in Range(freed[n])
DoubleFreed(n) == \E p \in {"href", "prefix", "node"} : Count(freed[n], p) > 1
Live(n) == n \in alloc /\ ~IsFreed(n)

\* the record released first, its buffers read out of it afterwards
dealloc_namespace_record_first(ns) ==
  <<"node">>
  \o (IF hrefOf(ns) # NullBuf THEN <<"href">> ELSE <<>>)
  \o (IF prefixOf(ns) # NullBuf THEN <<"prefix">> ELSE <<>>)

\* the xmlFree calls of dealloc_namespace, in the order it makes them
dealloc_namespace(ns) ==
  (IF hrefOf(ns) # NullBuf THEN <<"href">> ELSE <<>>)
  \o (IF prefixOf(ns) # NullBuf THEN <<"prefix">> ELSE <<>>)
  \o <<"node">>

\* xmlFreeNs, called on every nsDef record when xmlFreeDoc frees the tree
xmlFreeNs(ns) ==
  (IF hrefOf(ns) # NullBuf THEN <<"href">> ELSE <<>>)
  \o (IF prefixOf(ns) # NullBuf THEN <<"prefix">> ELSE <<>>)
  \o <<"node">>

(***************************************************************************)
(* The Ruby heap: what the collector may not sweep.                        *)
(***************************************************************************)
LiveObjs == DOMAIN wrappers \ collected

RECURSIVE Closure(_, _)
Closure(W, D) ==
  LET W2 == W \cup {w \in LiveObjs : \E d \in D : w \in Range(node_cache[d])}
      D2 == D \cup ({wrappers[w].document : w \in W} \ {Qnil})
  IN IF W2 = W /\ D2 = D THEN <<W, D>> ELSE Closure(W2, D2)

Marked == Closure(held, docHeld)
ReachableWrappers == Marked[1]
ReachableDocs == Marked[2]

(***************************************************************************)
(* Nokogiri_wrap_xml_namespace.                                            *)
(***************************************************************************)
\* node->type of whatever a next link points at: xmlNs and xmlNode keep the
\* type tag at the same offset
typeOf(p) == IF p \in AllNodes THEN XML_NAMESPACE_DECL ELSE XML_ELEMENT_NODE

NOKOGIRI_NAMESPACE_EH(p) == typeOf(p) = XML_NAMESPACE_DECL

\* the test of node->next for NULL left out
part_of_an_xpath_node_set_eh_nonull(node) ==
  ~NOKOGIRI_NAMESPACE_EH(next[node])

\* the negation of NOKOGIRI_NAMESPACE_EH lost
part_of_an_xpath_node_set_eh_unnegated(node) ==
  next[node] # NULL /\ NOKOGIRI_NAMESPACE_EH(next[node])

part_of_an_xpath_node_set_eh(node) ==
  next[node] # NULL /\ ~NOKOGIRI_NAMESPACE_EH(next[node])

\* doc->_private holds the tuple with the Document object
DOC_RUBY_OBJECT_TEST(d) == docObject[d] = "live"
DOC_RUBY_OBJECT(d) == d

\* line 90: the condition of the assert()
AssertDocType(doc) ==
  doctype(doc) \in {XML_DOCUMENT_NODE, XML_HTML_DOCUMENT_NODE}

\* the cached object is trusted only while the record still looks the way
\* its wrapper was classified
CacheHit_revalidated(node) ==
  /\ private[node] # 0
  /\ (part_of_an_xpath_node_set_eh(node)
        <=> wrappers[private[node]].dfree = dealloc_fn)

\* an object made without Document is replaced once the document has one
CacheHit_unless_fallback(node) ==
  /\ private[node] # 0
  /\ ~(/\ wrappers[private[node]].document = Qnil
        /\ DOC_RUBY_OBJECT_TEST(home(node)))

\* the identity check left out: every call makes a new object
CacheHit_never(node) == FALSE

\* line 92
CacheHit(node) == private[node] # 0

\* line 94
OwningDoc(doc) ==
  IF doctype(doc) = XML_DOCUMENT_FRAG_NODE THEN docdoc(doc) ELSE doc

\* rb_iv_set(ns, "@document", document) moved into the branch of the copies
NewWrapper_no_backref(d, node) ==
  IF DOC_RUBY_OBJECT_TEST(d) /\ part_of_an_xpath_node_set_eh(node)
  THEN [node |-> node, dfree |-> dealloc_fn, document |-> DOC_RUBY_OBJECT(d)]
  ELSE [node |-> node, dfree |-> no_fn, document |-> Qnil]

\* rb_iv_set(ns, "@document", document) moved into the else branch, next to
\* the push on @node_cache
NewWrapper_backref_cached_only(d, node) ==
  IF DOC_RUBY_OBJECT_TEST(d)
  THEN IF part_of_an_xpath_node_set_eh(node)
       THEN [node |-> node, dfree |-> dealloc_fn, document |-> Qnil]
       ELSE [node |-> node, dfree |-> no_fn,
             document |-> DOC_RUBY_OBJECT(d)]
  ELSE [node |-> node, dfree |-> no_fn, document |-> Qnil]

\* the record is classified before the document is tested for its object
NewWrapper_classify_first(d, node) ==
  IF part_of_an_xpath_node_set_eh(node)
  THEN [node |-> node, dfree |-> dealloc_fn,
        document |-> IF DOC_RUBY_OBJECT_TEST(d) THEN DOC_RUBY_OBJECT(d) ELSE Qnil]
  ELSE [node |-> node, dfree |-> no_fn,
        document |-> IF DOC_RUBY_OBJECT_TEST(d) THEN DOC_RUBY_OBJECT(d) ELSE Qnil]

\* lines 96-116: the object Data_Wrap_Struct makes and its @document
NewWrapper(d, node) ==
  IF DOC_RUBY_OBJECT_TEST(d)
  THEN IF part_of_an_xpath_node_set_eh(node)
       THEN [node |-> node, dfree |-> dealloc_fn,
             document |-> DOC_RUBY_OBJECT(d)]
       ELSE [node |-> node, dfree |-> no_fn,
             document |-> DOC_RUBY_OBJECT(d)]
  ELSE [node |-> node, dfree |-> no_fn, document |-> Qnil]

\* the push moved out of the else branch: every new object is cached
PushNodeCache_both(d, node, ns) ==
  IF DOC_RUBY_OBJECT_TEST(d)
  THEN [node_cache EXCEPT ![d] = Append(@, ns)]
  ELSE node_cache

\* lines 109-110: rb_ary_push on the document's @node_cache
PushNodeCache(d, node, ns) ==
  IF DOC_RUBY_OBJECT_TEST(d) /\ ~part_of_an_xpath_node_set_eh(node)
  THEN [node_cache EXCEPT ![d] = Append(@, ns)]
  ELSE node_cache

\* what callers owe the function: a live document handle and a live node that
\* is in that document's tree or came out of a query on it (a node that is
\* already wrapped is also handed in with other handles)
WrapPre(doc, node) ==
  /\ status = "running"
  /\ Live(node)
  /\ Exists(docdoc(doc))
  /\ docdoc(doc) \notin tornDown
  /\ (private[node] = 0 => home(node) = docdoc(doc))

Nokogiri_wrap_xml_namespace(doc, node) ==
  /\ WrapPre(doc, node)
  \* the build either keeps the assert() or compiles it out (NDEBUG)
  /\ \E assertions \in BOOLEAN :
       IF assertions /\ ~AssertDocType(doc)
       THEN /\ status' = "aborted"
            /\ ret' = NoRet
            /\ UNCHANGED <<private, wrappers, node_cache, held>>
       ELSE IF CacheHit(node)
       THEN /\ ret' = [op |-> "wrap", self |-> node, doc |-> docdoc(doc),
                        link |-> next[node], hit |-> TRUE,
                        val |-> private[node]]
            /\ held' = held \cup ({private[node]} \ collected)
            /\ UNCHANGED <<status, private, wrappers, node_cache>>
       ELSE LET d == OwningDoc(doc)
                ns == Len(wrappers) + 1
            IN /\ Len(wrappers) < MaxWrappers
               /\ wrappers' = Append(wrappers, NewWrapper(d, node))
               /\ node_cache' = PushNodeCache(d, node, ns)
               /\ private' = [private EXCEPT ![node] = ns]
               /\ ret' = [op |-> "wrap", self |-> node, doc |-> docdoc(doc),
                           link |-> next[node], hit |-> FALSE, val |-> ns]
               /\ held' = held \cup {ns}
               /\ UNCHANGED status
  /\ UNCHANGED <<alloc, next, freed, docObject, tornDown, collected,
                 docHeld>>

(***************************************************************************)
(* prefix and href.                                                        *)
(***************************************************************************)
RECURSIVE strlen(_)
strlen(buf) == IF buf = <<>> \/ Head(buf) = 0 THEN 0 ELSE 1 + strlen(Tail(buf))

\* rb_str_new of the bytes before the NUL
NOKOGIRI_STR_NEW2(buf) == RStr(SubSeq(buf, 1, strlen(buf)))

\* what a read of freed memory may hand back
Garbage == {RNil, RStr(<<>>), RStr(TextA), RStr(TextP), <<"crash">>}

\* the test of line 60 left out
prefix_value_unchecked(ns) == NOKOGIRI_STR_NEW2(prefixOf(ns))

prefix_value(ns) ==
  IF prefixOf(ns) = NullBuf THEN RNil ELSE NOKOGIRI_STR_NEW2(prefixOf(ns))

href_value(ns) ==
  IF hrefOf(ns) = NullBuf THEN RNil ELSE NOKOGIRI_STR_NEW2(hrefOf(ns))

\* Data_Get_Struct
Data_Get_Struct(self) == wrappers[self].node

prefix(self) ==
  /\ status = "running"
  /\ self \in held
  /\ LET ns == Data_Get_Struct(self)
     IN \E v \in (IF IsFreed(ns) THEN Garbage ELSE {prefix_value(ns)}) :
          ret' = [op |-> "prefix", self |-> self, val |-> v]
  /\ UNCHANGED <<status, alloc, next, private, freed, docObject,
                 tornDown, node_cache, wrappers, collected, held, docHeld>>

href(self) ==
  /\ status = "running"
  /\ self \in held
  /\ LET ns == Data_Get_Struct(self)
     IN \E v \in (IF IsFreed(ns) THEN Garbage ELSE {href_value(ns)}) :
          ret' = [op |-> "href", self |-> self, val |-> v]
  /\ UNCHANGED <<status, alloc, next, private, freed, docObject,
                 tornDown, node_cache, wrappers, collected, held, docHeld>>

(***************************************************************************)
(* The collaborators: the Ruby collector, the Document object and the tree *)
(* library.                                                                *)
(***************************************************************************)
\* the document gets its Ruby object, which its creator refers to
WrapDocument(d) ==
  /\ status = "running"
  /\ Exists(d)
  /\ docObject[d] = "none"
  /\ docObject' = [docObject EXCEPT ![d] = "live"]
  /\ docHeld' = docHeld \cup {d}
  /\ UNCHANGED <<status, alloc, next, private, freed, tornDown,
                 node_cache, wrappers, collected, held, ret>>

\* a caller lets go of a Namespace object
DropRef(w) ==
  /\ status = "running"
  /\ w \in held
  /\ held' = held \ {w}
  /\ UNCHANGED <<status, alloc, next, private, freed, docObject,
                 tornDown, node_cache, wrappers, collected, docHeld, ret>>

\* a caller lets go of a Document object
DropDocument(d) ==
  /\ status = "running"
  /\ d \in docHeld
  /\ docHeld' = docHeld \ {d}
  /\ UNCHANGED <<status, alloc, next, private, freed, docObject,
                 tornDown, node_cache, wrappers, collected, held, ret>>

\* dealloc_namespace run for every Namespace object
RunDfree_always(w) ==
  [freed EXCEPT ![wrappers[w].node] = @ \o dealloc_namespace(wrappers[w].node)]

\* the whole node set released with the record, as xmlXPathFreeNodeSet does:
\* every copy the query made on the same document
RunDfree_node_set(w) ==
  IF wrappers[w].dfree = dealloc_fn
  THEN [n \in AllNodes |->
          IF /\ n \in Copies \cap alloc
             /\ home(n) = home(wrappers[w].node)
             /\ (n = wrappers[w].node \/ ~IsFreed(n))
          THEN freed[n] \o dealloc_namespace(n)
          ELSE freed[n]]
  ELSE freed

\* the dfree function Data_Wrap_Struct was given, run by the collector
RunDfree(w) ==
  IF wrappers[w].dfree = dealloc_fn
  THEN [freed EXCEPT ![wrappers[w].node] = @ \o dealloc_namespace(wrappers[w].node)]
  ELSE freed

\* the collector sweeps a Namespace object nothing refers to any more
Collect(w) ==
  /\ status = "running"
  /\ w \in LiveObjs
  /\ w \notin ReachableWrappers
  /\ collected' = collected \cup {w}
  /\ freed' = RunDfree(w)
  /\ UNCHANGED <<status, alloc, next, private, docObject, tornDown,
                 node_cache, wrappers, held, docHeld, ret>>

\* the collector sweeps a Document object: its dealloc frees the native tree
CollectDocument(d) ==
  /\ status = "running"
  /\ docObject[d] = "live"
  /\ d \notin ReachableDocs
  /\ docObject' = [docObject EXCEPT ![d] = "collected"]
  /\ tornDown' = tornDown \cup {d}
  /\ freed' = [n \in AllNodes |->
                IF n \in TreeNodes \cap alloc /\ home(n) = d
                THEN freed[n] \o xmlFreeNs(n) ELSE freed[n]]
  /\ UNCHANGED <<status, alloc, next, private, node_cache, wrappers,
                 collected, held, docHeld, ret>>

\* the next links the tree library may store in a record: before the record
\* is wrapped only what its origin allows (a declaration chain holds
\* declarations of the same document, a copy keeps its element); afterwards
\* any shape, which is what the wrapper's classification must survive
RelinkTargets(n) ==
  IF private[n] = 0
  THEN IF n \in TreeNodes
       THEN {NULL} \cup {m \in TreeNodes \cap alloc :
                          m # n /\ home(m) = home(n) /\ next[m] # n}
       ELSE {elemOf(home(n))}
  ELSE {NULL, elemOf(home(n)), InitNext(n)}

Relink(n, p) ==
  /\ status = "running"
  /\ Cardinality({m \in alloc \ {n} : next[m] # InitNext(m)}) < MaxRelinked
  /\ Live(n)
  /\ home(n) \notin tornDown
  /\ p \in RelinkTargets(n)
  /\ p # next[n]
  /\ next' = [next EXCEPT ![n] = p]
  /\ UNCHANGED <<status, alloc, private, freed, docObject, tornDown,
                 node_cache, wrappers, collected, held, docHeld, ret>>

Next ==
  \/ \E doc \in Handles, node \in AllNodes : Nokogiri_wrap_xml_namespace(doc, node)
  \/ \E self \in 1..MaxWrappers : prefix(self)
  \/ \E self \in 1..MaxWrappers : href(self)
  \/ \E d \in Docs : WrapDocument(d)
  \/ \E w \in 1..MaxWrappers : DropRef(w)
  \/ \E d \in Docs : DropDocument(d)
  \/ \E w \in 1..MaxWrappers : Collect(w)
  \/ \E d \in Docs : CollectDocument(d)
  \/ \E n \in AllNodes, p \in Ptrs : Relink(n, p)

Spec == Init /\ [][Next]_vars
SpecDocs == InitDocs /\ [][Next]_vars

\* the steps of the query scenario: Next without WrapDocument, which is never
\* enabled there (the one document has its Ruby object from the start)
NextQuery ==
  \/ \E doc \in Handles, node \in AllNodes : Nokogiri_wrap_xml_namespace(doc, node)
  \/ \E self \in 1..MaxWrappers : prefix(self)
  \/ \E self \in 1..MaxWrappers : href(self)
  \/ \E w \in 1..MaxWrappers : DropRef(w)
  \/ \E d \in Docs : DropDocument(d)
  \/ \E w \in 1..MaxWrappers : Collect(w)
  \/ \E d \in Docs : CollectDocument(d)
  \/ \E n \in AllNodes, p \in Ptrs : Relink(n, p)

SpecQuery == InitQuery /\ [][NextQuery]_vars

(***************************************************************************)
(* Properties.                                                             *)
(***************************************************************************)
Detached(w) == wrappers[w].dfree = dealloc_fn
InNodeCache(w, d) == w \in Range(node_cache[d])
NodeFrees(n) == Count(freed[n], "node")

\* C1 (identity cache): no two Namespace objects wrap the same xmlNs record,
\* every wrap call that returns hands back the object the record's _private
\* slot names, and a slot, once written, is never written again: so every
\* later call returns the object of the first one.
IdentityCache ==
  /\ [](\A w1, w2 \in DOMAIN wrappers :
          wrappers[w1].node = wrappers[w2].node => w1 = w2)
  /\ [](ret.op = "wrap" =>
          /\ ret.val = private[ret.self]
          /\ wrappers[ret.val].node = ret.self)
  /\ [][\A n \in AllNodes : private[n] # 0 => private'[n] = private[n]]_vars

\* a call on an already wrapped record, made after the collector has run and
\* after a next link has changed
IdentityCacheWitness ==
  /\ ret.op = "wrap" /\ ret.hit
  /\ collected # {}
  /\ ret.link # InitNext(ret.self)
  /\ Len(wrappers) >= 2

\* C2 (detached nodes are freed once, by their wrapper): the record of a
\* Namespace object that carries dealloc_namespace has been freed exactly
\* once when the object has been collected and not at all before, whatever
\* else has run (other wraps, other collections, the document's teardown),
\* and none of its buffers is freed twice.
DetachedFreedOnce ==
  \A w \in DOMAIN wrappers :
    Detached(w) =>
      /\ NodeFrees(wrappers[w].node) = (IF w \in collected THEN 1 ELSE 0)
      /\ ~DoubleFreed(wrappers[w].node)

\* a detached wrapper has been collected and the document torn down as well,
\* while another Namespace object has been collected too
DetachedFreedOnceWitness ==
  \E w \in collected :
    /\ Detached(w)
    /\ IsFreed(wrappers[w].node)
    /\ tornDown # {}
    /\ \E v \in collected : ~Detached(v)

\* C3 (document nodes are freed by the teardown only): collecting a Namespace
\* object without dealloc_namespace frees nothing; a record of a document's
\* declaration chain is freed only in the step that tears its document down;
\* and no record or buffer is ever freed twice.
TreeNodesFreedByTeardownOnly ==
  /\ [][\A w \in DOMAIN wrappers :
          (w \in collected' /\ w \notin collected /\ ~Detached(w))
            => freed' = freed]_vars
  /\ [][\A n \in TreeNodes \cap alloc :
          freed'[n] # freed[n] =>
            (home(n) \in tornDown' /\ home(n) \notin tornDown)]_vars
  /\ [](\A n \in AllNodes : ~DoubleFreed(n))

\* a document-scoped wrapper was collected and its record then freed, once,
\* by the teardown of the document
TreeNodesFreedByTeardownOnlyWitness ==
  \E w \in collected :
    /\ ~Detached(w)
    /\ wrappers[w].document # Qnil
    /\ wrappers[w].node \in TreeNodes
    /\ home(wrappers[w].node) \in tornDown
    /\ NodeFrees(wrappers[w].node) = 1

\* a step that wraps record n for the first time
FirstWrap(n) == private[n] = 0 /\ private'[n] # 0

\* C4 (classification): when a record is first wrapped and its document has
\* a Document object, the new Namespace object carries dealloc_namespace
\* exactly if the record's next link is not NULL and what it points at is not
\* identifiable as a namespace node; otherwise it carries no free function.
ClassifiedByNextSibling ==
  [][\A n \in alloc :
       (FirstWrap(n) /\ DOC_RUBY_OBJECT_TEST(home(n))) =>
         LET w == wrappers'[private'[n]]
         IN /\ w.dfree \in {dealloc_fn, no_fn}
            /\ w.dfree = dealloc_fn <=>
                 (next[n] # NULL /\ ~NOKOGIRI_NAMESPACE_EH(next[n]))]_vars

\* objects of both kinds exist for one document: one for a record with a
\* next link to an element, one for a record followed by a declaration and
\* one for a record with no next link
ClassifiedByNextSiblingWitness ==
  /\ \A n \in {"n1", "n2", "c1"} :
       /\ private[n] # 0
       /\ wrappers[private[n]].document = home(n)
  /\ Detached(private["c1"])
  /\ ~Detached(private["n1"])
  /\ ~Detached(private["n2"])

\* which free function the wrapper of a wrapped record carries and which
\* node caches hold it
Variant(n) ==
  <<wrappers[private[n]].dfree,
    {d \in Docs : InNodeCache(private[n], d)},
    wrappers[private[n]].document>>

\* C5 (classification stability): once a record is wrapped it stays wrapped
\* by the same kind of object: the free function of its wrapper, the node
\* caches the wrapper is in and its @document are the same after every step,
\* also after steps that change the record's next link and after later wrap
\* calls.
ClassificationStable ==
  [][\A n \in AllNodes :
       private[n] # 0 =>
         (private'[n] # 0 /\ Variant(n)' = Variant(n))]_vars

\* a wrap call was made on a wrapped record whose next link had by then a
\* shape that a first wrap would classify the other way
ClassificationStableWitness ==
  /\ ret.op = "wrap" /\ ret.hit
  /\ wrappers[ret.val].document # Qnil
  /\ (ret.link # NULL /\ ~NOKOGIRI_NAMESPACE_EH(ret.link)) # Detached(ret.val)

\* C6 (node cache content): the @node_cache of a document holds exactly the
\* Namespace objects made without free function for that document (those
\* whose @document is the document), each once, and no object that carries
\* dealloc_namespace is in any node cache.
NodeCacheContent ==
  \A d \in Docs :
    /\ \A w \in DOMAIN wrappers :
         (~Detached(w) /\ wrappers[w].document = d) <=> InNodeCache(w, d)
    /\ \A i, j \in DOMAIN node_cache[d] :
         node_cache[d][i] = node_cache[d][j] => i = j
    /\ \A w \in Range(node_cache[d]) : w \in DOMAIN wrappers /\ ~Detached(w)

\* both declarations of the document are cached, a detached object exists,
\* and a cached record has been wrapped again
NodeCacheContentWitness ==
  /\ Len(node_cache["d1"]) = 2
  /\ \E w \in DOMAIN wrappers : Detached(w)
  /\ ret.op = "wrap" /\ ret.hit /\ InNodeCache(ret.val, "d1")

\* C7 (fallback): a first wrap of a record whose document has no Document
\* object makes an object without free function and without @document and
\* leaves every node cache as it is, whatever the record's next link; an
\* object gets dealloc_namespace only in a step that starts with the Document
\* object present.
FallbackWithoutDocument ==
  [][\A n \in alloc :
       FirstWrap(n) =>
         LET w == wrappers'[private'[n]]
         IN /\ ~DOC_RUBY_OBJECT_TEST(home(n)) =>
                 /\ w = [node |-> n, dfree |-> no_fn, document |-> Qnil]
                 /\ node_cache' = node_cache
            /\ w.dfree = dealloc_fn => DOC_RUBY_OBJECT_TEST(home(n))]_vars

\* a copy from a query (next link to an element) was wrapped before its
\* document had its object, and has the fallback object although the
\* document has its object by now
FallbackWithoutDocumentWitness ==
  /\ private["c1"] # 0
  /\ wrappers[private["c1"]] = [node |-> "c1", dfree |-> no_fn, document |-> Qnil]
  /\ next["c1"] = "e1"
  /\ DOC_RUBY_OBJECT_TEST("d1")

\* the Namespace objects made while their document had its Document object:
\* the cached ones and the detached ones
MadeWithDocument(w) == Detached(w) \/ \E d \in Docs : InNodeCache(w, d)

\* C8 as claimed: while a Namespace object without free function can still be
\* reached, the record it wraps has not been freed.
NoOpWrapperNeverOutlivesNode ==
  \A w \in ReachableWrappers :
    ~Detached(w) => ~IsFreed(wrappers[w].node)

\* C8 (no use after free on teardown), amended: while a document-scoped
\* Namespace object (made while the document had its Document object) can
\* still be reached, its document has not been torn down and its record
\* has not been freed, so prefix and href called on it return the record's
\* texts.
ScopedWrapperNeverOutlivesNode ==
  /\ \A w \in ReachableWrappers :
       MadeWithDocument(w) =>
         /\ home(wrappers[w].node) \notin tornDown
         /\ ~IsFreed(wrappers[w].node)
  /\ \A w \in DOMAIN wrappers :
       MadeWithDocument(w) =>
         /\ (ret.op = "prefix" /\ ret.self = w)
               => ret.val = prefixText(wrappers[w].node)
         /\ (ret.op = "href" /\ ret.self = w)
               => ret.val = hrefText(wrappers[w].node)

\* href was read through a cached Namespace object that a caller holds while
\* nobody holds the Document object any more: only the object's @document
\* keeps the document from being torn down
ScopedWrapperNeverOutlivesNodeWitness ==
  /\ ret.op = "href"
  /\ ret.self \in held
  /\ InNodeCache(ret.self, "d1")
  /\ DOC_RUBY_OBJECT_TEST("d1")
  /\ docHeld = {}

CacheHitChangesNothing ==
  [][\A doc \in Handles, node \in AllNodes :
       (private[node] # 0 /\ Nokogiri_wrap_xml_namespace(doc, node)) =>
         UNCHANGED <<private, node_cache, wrappers, next, freed, docObject,
                     tornDown, collected, docHeld>>]_vars

\* a wrapped record was wrapped again while both documents hold a cached
\* object
CacheHitChangesNothingWitness ==
  /\ ret.op = "wrap" /\ ret.hit
  /\ \A d \in Docs : node_cache[d] # <<>>

\* C11 as claimed: a Namespace object that carries dealloc_namespace has no
\* @document.
DetachedHoldsNoDocument ==
  \A w \in DOMAIN wrappers : Detached(w) => wrappers[w].document = Qnil

\* C11 (back-reference of the copies): line 113 runs for both kinds of object
\* made while the document has its Ruby object, so a Namespace object that
\* carries dealloc_namespace refers to the Document of the handle it was made
\* with, and as long as it can be reached that Document is reachable and not
\* collected; the reference goes one way only: no node cache holds the object.
DetachedRefersToDocument ==
  \A w \in DOMAIN wrappers :
    Detached(w) =>
      /\ wrappers[w].document = home(wrappers[w].node)
      /\ \A d \in Docs : ~InNodeCache(w, d)
      /\ w \in ReachableWrappers =>
            /\ wrappers[w].document \in ReachableDocs
            /\ docObject[wrappers[w].document] = "live"

\* the caller has dropped the Document and holds only the wrapper of a copy
DetachedRefersToDocumentWitness ==
  \E w \in DOMAIN wrappers :
    /\ Detached(w)
    /\ w \in held
    /\ docHeld = {}
    /\ held = {w}
    /\ docObject[wrappers[w].document] = "live"

\* C12 (fragment redirect): a wrap call that is handed a fragment's handle
\* does not fail: it returns a Namespace object for the record, made (or
\* found) under the fragment's owning document.
FragmentRedirectProceeds ==
  [][\A f \in Frags, n \in AllNodes :
       Nokogiri_wrap_xml_namespace(f, n) =>
         /\ status' = "running"
         /\ ret'.op = "wrap" /\ ret'.self = n /\ ret'.doc = docdoc(f)
         /\ private'[n] = ret'.val]_vars

\* the records of the document's own declarations
Originals == TreeNodes \cap alloc

Released(n, part) == {i \in DOMAIN freed[n] : freed[n][i] = part}
Before(n, p, q) == \A i \in Released(n, p), j \in Released(n, q) : i < j

\* C14 (order of the releases): for a record whose Namespace object carries
\* dealloc_namespace, nothing is released before the object is collected;
\* afterwards the href buffer has been released if and only if the record
\* has one, likewise the prefix buffer, and the record itself; nothing was
\* released twice; and href came before prefix and both before the record.
DestructorOrder ==
  \A w \in DOMAIN wrappers :
    Detached(w) =>
      LET n == wrappers[w].node
      IN /\ w \notin collected => freed[n] = <<>>
         /\ w \in collected =>
               /\ Cardinality(Released(n, "href"))
                    = (IF hrefOf(n) = NullBuf THEN 0 ELSE 1)
               /\ Cardinality(Released(n, "prefix"))
                    = (IF prefixOf(n) = NullBuf THEN 0 ELSE 1)
               /\ Cardinality(Released(n, "node")) = 1
               /\ Before(n, "href", "prefix")
               /\ Before(n, "href", "node")
               /\ Before(n, "prefix", "node")
               /\ freed[n][Len(freed[n])] = "node"

\* collected: a copy with both buffers, one without prefix, one without href
DestructorOrderWitness ==
  \E w1, w2, w3 \in collected :
    /\ Detached(w1) /\ Detached(w2) /\ Detached(w3)
    /\ Len(freed[wrappers[w1].node]) = 3
    /\ freed[wrappers[w2].node] = <<"href", "node">>
    /\ freed[wrappers[w3].node] = <<"prefix", "node">>

\* C15 (frame of the cleanup): the step in which the collector runs
\* dealloc_namespace for a Namespace object, at whatever point between the
\* other operations, changes the release log of that object's record and
\* nothing else of the shared structures: every node cache, every other
\* record's _private slot, next link and release log, every Namespace object
\* and every Document stay as they were.
DestructorFrame ==
  [][\A w \in DOMAIN wrappers :
       (Detached(w) /\ w \notin collected /\ w \in collected') =>
         /\ node_cache' = node_cache
         /\ wrappers' = wrappers
         /\ collected' = collected \cup {w}
         /\ docObject' = docObject /\ tornDown' = tornDown
         /\ \A n \in AllNodes \ {wrappers[w].node} :
               /\ private'[n] = private[n]
               /\ next'[n] = next[n]
               /\ freed'[n] = freed[n]]_vars

\* the cleanup of one copy has run between wrap calls, while the object of
\* another copy and a cached object are still there with their records
DestructorFrameWitness ==
  /\ ret.op = "wrap"
  /\ \E w \in collected, w2 \in LiveObjs :
        /\ Detached(w) /\ IsFreed(wrappers[w].node)
        /\ Detached(w2) /\ ~IsFreed(wrappers[w2].node)
        /\ w < ret.val
  /\ \E d \in Docs : node_cache[d] # <<>>

\* C16 (no dangling identity): the _private slot of a record that has not
\* been freed never names a Namespace object the collector has swept, so no
\* wrap call hands out a swept object, whichever of the three kinds of
\* object the record got.
NoDanglingIdentity ==
  \A n \in AllNodes :
    (Live(n) /\ private[n] # 0) => private[n] \notin collected

\* a Namespace object made by the fallback of line 115
Fallback(w) == wrappers[w].dfree = no_fn /\ wrappers[w].document = Qnil

\* C17 (the fallback object stays): a record first wrapped while its
\* document had no Document object keeps that Namespace object in its
\* _private slot after the document has got one: the object is never
\* replaced, changed, given a @document or pushed on a node cache, and every
\* wrap call on the record returns it.
FallbackSticky ==
  /\ [](\A n \in AllNodes :
          (private[n] # 0 /\ Fallback(private[n])) =>
            \A d \in Docs : ~InNodeCache(private[n], d))
  /\ [](ret.op = "wrap" => ret.val = private[ret.self])
  /\ [][\A n \in AllNodes :
          (private[n] # 0 /\ Fallback(private[n])) =>
            /\ private'[n] = private[n]
            /\ wrappers'[private[n]] = wrappers[private[n]]]_vars

\* the document got its Document object after the record was wrapped; a
\* later record was cached under it, and a later call on the first record
\* returned the fallback object, which a caller still holds
FallbackStickyWitness ==
  /\ ret.op = "wrap" /\ ret.hit
  /\ Fallback(ret.val)
  /\ ret.val \in held
  /\ docObject[home(ret.self)] = "live"
  /\ node_cache[home(ret.self)] # <<>>

\* C18 (the slot is looked up by record alone): a wrap call on a wrapped
\* record with the handle of another document than the record's own returns
\* the object in the slot and changes no slot, no Namespace object (so not
\* its @document) and no node cache; and a Namespace object is in the node
\* cache of no document but the one its @document names, at most once.
IdentityKeyedByNode ==
  /\ [][\A doc \in Handles, n \in AllNodes :
          (/\ private[n] # 0
           /\ docdoc(doc) # home(n)
           /\ Nokogiri_wrap_xml_namespace(doc, n)
           /\ status' = "running") =>
             /\ ret'.val = private[n]
             /\ private' = private
             /\ wrappers' = wrappers
             /\ node_cache' = node_cache]_vars
  /\ [](\A w \in DOMAIN wrappers, d \in Docs :
          InNodeCache(w, d) =>
            /\ wrappers[w].document = d
            /\ Count(node_cache[d], w) = 1)

\* the last call was made on a cached object's record with the handle of the
\* other document, which has a Document object and a node cache of its own
IdentityKeyedByNodeWitness ==
  /\ ret.op = "wrap" /\ ret.hit
  /\ ret.doc # home(ret.self)
  /\ docObject[ret.doc] = "live"
  /\ InNodeCache(ret.val, home(ret.self))
  /\ wrappers[ret.val].document = home(ret.self)

====
